---- MODULE Spec2Model ----
(***************************************************************************)
(* Model of the travel itinerary planner in src/index.py: the Destination  *)
(* record, the ItineraryManager (in-memory list plus its JSON file) and    *)
(* the TravelPlannerApp menu loop.                                         *)
(*                                                                         *)
(* A Python str is a sequence of one-character strings, so that lower(),   *)
(* strip(), split(','), the `in` substring test, the lexicographic str     *)
(* comparison and strptime are computed character by character.            *)
(* A Python float is an integer or the value NaN.                          *)
(***************************************************************************)
EXTENDS Integers, Sequences, FiniteSets, TLC

(***************************************************************************)
(* Bounds of the model.                                                    *)
(***************************************************************************)
MaxDest == 2
MaxSort == 3

(***************************************************************************)
(* Python str.                                                             *)
(***************************************************************************)
\* The characters of the model in ascending code-point order.
Alphabet ==
  << " ", ",", "-", "/", "0", "1", "2", "3", "4", "5", "6", "7", "8", "9",
     "A", "B", "F", "M", "N", "a", "b", "f", "m", "n", "x" >>

Ord(c) == CHOOSE i \in 1..Len(Alphabet) : Alphabet[i] = c

Digits == {"0", "1", "2", "3", "4", "5", "6", "7", "8", "9"}

DigitVal(c) == Ord(c) - Ord("0")

LowerChar(c) ==
  CASE c = "A" -> "a"
    [] c = "B" -> "b"
    [] c = "F" -> "f"
    [] c = "M" -> "m"
    [] c = "N" -> "n"
    [] OTHER -> c

\* str.lower()
lower(s) == [i \in 1..Len(s) |-> LowerChar(s[i])]

RECURSIVE lstrip(_)
lstrip(s) == IF s # <<>> /\ Head(s) = " " THEN lstrip(Tail(s)) ELSE s

RECURSIVE rstrip(_)
rstrip(s) ==
  IF s # <<>> /\ s[Len(s)] = " " THEN rstrip(SubSeq(s, 1, Len(s) - 1)) ELSE s

\* str.strip()
strip(s) == rstrip(lstrip(s))

\* sub in s
Contains(sub, s) ==
  \E i \in 0..(Len(s) - Len(sub)) : SubSeq(s, i + 1, i + Len(sub)) = sub

\* s < t on str: lexicographic by code point
RECURSIVE StrLess(_, _)
StrLess(s, t) ==
  IF t = <<>> THEN FALSE
  ELSE IF s = <<>> THEN TRUE
  ELSE IF Head(s) # Head(t) THEN Ord(Head(s)) < Ord(Head(t))
  ELSE StrLess(Tail(s), Tail(t))

\* s >= t on str
StrGeq(s, t) == ~StrLess(s, t)

\* s.split(','): always at least one piece
RECURSIVE split(_)
split(s) ==
  IF \A i \in 1..Len(s) : s[i] # ","
  THEN << s >>
  ELSE LET k == CHOOSE i \in 1..Len(s) :
                   s[i] = "," /\ \A j \in 1..(i - 1) : s[j] # ","
       IN  << SubSeq(s, 1, k - 1) >> \o split(SubSeq(s, k + 1, Len(s)))

\* [act.strip() for act in text.split(',')]
SplitActivities(text) ==
  LET parts == split(text) IN [i \in 1..Len(parts) |-> strip(parts[i])]

(***************************************************************************)
(* datetime.strptime(date_str, '%Y-%m-%d').  The format compiles to the    *)
(* regular expression                                                      *)
(*   \d\d\d\d - (1[0-2]|0[1-9]|[1-9]) - (3[01]|[12]\d|0[1-9]|[1-9]| [1-9]) *)
(* which must consume the whole string; the fields must then form a date   *)
(* of the proleptic Gregorian calendar with year >= 1.                     *)
(***************************************************************************)
IsLeap(y) == (y % 4 = 0) /\ ((y % 100 # 0) \/ (y % 400 = 0))

DaysInMonth(y, m) ==
  CASE m \in {4, 6, 9, 11} -> 30
    [] m = 2 -> IF IsLeap(y) THEN 29 ELSE 28
    [] OTHER -> 31

MonthText(t) ==
  \/ Len(t) = 2 /\ t[1] = "1" /\ t[2] \in {"0", "1", "2"}
  \/ Len(t) = 2 /\ t[1] = "0" /\ t[2] \in Digits \ {"0"}
  \/ Len(t) = 1 /\ t[1] \in Digits \ {"0"}

DayText(t) ==
  \/ Len(t) = 2 /\ t[1] = "3" /\ t[2] \in {"0", "1"}
  \/ Len(t) = 2 /\ t[1] \in {"1", "2"} /\ t[2] \in Digits
  \/ Len(t) = 2 /\ t[1] = "0" /\ t[2] \in Digits \ {"0"}
  \/ Len(t) = 1 /\ t[1] \in Digits \ {"0"}
  \/ Len(t) = 2 /\ t[1] = " " /\ t[2] \in Digits \ {"0"}

\* int() of a matched month or day text
FieldVal(t) ==
  IF Len(t) = 1 THEN DigitVal(t[1])
  ELSE IF t[1] = " " THEN DigitVal(t[2])
  ELSE 10 * DigitVal(t[1]) + DigitVal(t[2])

NoDate == [ok |-> FALSE, y |-> 0, m |-> 0, d |-> 0]

strptime(s) ==
  IF Len(s) < 8 \/ Len(s) > 10 THEN NoDate
  ELSE IF ~(\A i \in 1..4 : s[i] \in Digits) \/ s[5] # "-" THEN NoDate
  ELSE IF ~(\E j \in 7..8 : s[j] = "-") THEN NoDate
  ELSE
    LET j  == CHOOSE i \in 7..8 : s[i] = "-" /\ \A k \in 7..(i - 1) : s[k] # "-"
        mt == SubSeq(s, 6, j - 1)
        dt == SubSeq(s, j + 1, Len(s))
        y  == 1000 * DigitVal(s[1]) + 100 * DigitVal(s[2])
              + 10 * DigitVal(s[3]) + DigitVal(s[4])
    IN  IF ~MonthText(mt) \/ dt = <<>> \/ ~DayText(dt) THEN NoDate
        ELSE IF y < 1 \/ FieldVal(dt) > DaysInMonth(y, FieldVal(mt)) THEN NoDate
        ELSE [ok |-> TRUE, y |-> y, m |-> FieldVal(mt), d |-> FieldVal(dt)]

\* ItineraryManager._validate_date
validate_date(date_str) == strptime(date_str).ok

\* date(a) < date(b) for two parsed dates
DateBefore(a, b) ==
  \/ a.y < b.y
  \/ a.y = b.y /\ a.m < b.m
  \/ a.y = b.y /\ a.m = b.m /\ a.d < b.d

(***************************************************************************)
(* Python float: a number or NaN.  float(text) ignores surrounding blanks; *)
(* the model covers integer literals with an optional minus sign and the   *)
(* literal nan (any case).                                                 *)
(***************************************************************************)
Fl(n) == [nan |-> FALSE, v |-> n]

NaN == [nan |-> TRUE, v |-> 0]

RECURSIVE DecVal(_)
DecVal(t) ==
  IF t = <<>> THEN 0
  ELSE 10 * DecVal(SubSeq(t, 1, Len(t) - 1)) + DigitVal(t[Len(t)])

AllDigits(t) == t # <<>> /\ \A i \in 1..Len(t) : t[i] \in Digits

\* float(text): ok = FALSE stands for ValueError
ParseFloat(text) ==
  LET t == strip(text)
  IN  IF lower(t) = <<"n", "a", "n">> THEN [ok |-> TRUE, val |-> NaN]
      ELSE IF AllDigits(t) THEN [ok |-> TRUE, val |-> Fl(DecVal(t))]
      ELSE IF t # <<>> /\ Head(t) = "-" /\ AllDigits(Tail(t))
           THEN [ok |-> TRUE, val |-> Fl(0 - DecVal(Tail(t)))]
      ELSE [ok |-> FALSE, val |-> Fl(0)]

\* a < b, a > b, a == b on float: every comparison with NaN is false
FloatLess(a, b) == ~a.nan /\ ~b.nan /\ a.v < b.v
FloatGreater(a, b) == FloatLess(b, a)
FloatEq(a, b) == ~a.nan /\ ~b.nan /\ a.v = b.v

(***************************************************************************)
(* class Destination                                                       *)
(***************************************************************************)
\* Destination.__init__: the six fields, stored as given
Destination(city, country, start_date, end_date, budget, activities) ==
  [ city |-> city, country |-> country, start_date |-> start_date,
    end_date |-> end_date, budget |-> budget, activities |-> activities ]

\* to_dict with the two dates written under each other's key
to_dict_swapped(dest) ==
  [ city |-> dest.city, country |-> dest.country,
    start_date |-> dest.end_date, end_date |-> dest.start_date,
    budget |-> dest.budget, activities |-> dest.activities ]

\* Destination.to_dict: a dict is a function from its keys
to_dict(dest) ==
  [ city |-> dest.city, country |-> dest.country,
    start_date |-> dest.start_date, end_date |-> dest.end_date,
    budget |-> dest.budget, activities |-> dest.activities ]

RequiredKeys ==
  {"city", "country", "start_date", "end_date", "budget", "activities"}

NoDest == Destination(<<>>, <<>>, <<>>, <<>>, Fl(0), <<>>)

\* Destination.from_dict: ok = FALSE stands for the KeyError of data[key]
from_dict(data) ==
  IF RequiredKeys \subseteq DOMAIN data
  THEN [ ok |-> TRUE,
         dest |-> Destination(data["city"], data["country"],
                              data["start_date"], data["end_date"],
                              data["budget"], data["activities"]) ]
  ELSE [ ok |-> FALSE, dest |-> NoDest ]

(***************************************************************************)
(* json.dump / json.load.  The text of the file is a sequence of tokens:   *)
(* "[", one token for each object (its key/value pairs in the order they   *)
(* are written), "]".  Any other sequence of tokens is not valid JSON.     *)
(***************************************************************************)
TokOpen == [tok |-> "[", pairs |-> <<>>]
TokClose == [tok |-> "]", pairs |-> <<>>]
TokJunk == [tok |-> "junk", pairs |-> <<>>]
TokObject(pairs) == [tok |-> "{}", pairs |-> pairs]

\* a dict is written key by key in insertion order
DictKeys ==
  << "city", "country", "start_date", "end_date", "budget", "activities" >>

json_object(d) == [i \in 1..Len(DictKeys) |-> << DictKeys[i], d[DictKeys[i]] >>]

json_dump(data) ==
  << TokOpen >> \o [i \in 1..Len(data) |-> TokObject(json_object(data[i]))]
               \o << TokClose >>

\* the object read back from its pairs: the last pair of a key wins
DictOf(pairs) ==
  [ k \in {pairs[i][1] : i \in 1..Len(pairs)} |->
      pairs[CHOOSE i \in 1..Len(pairs) :
              /\ pairs[i][1] = k
              /\ \A j \in (i + 1)..Len(pairs) : pairs[j][1] # k][2] ]

\* json.load: ok = FALSE stands for JSONDecodeError
json_load(text) ==
  IF /\ Len(text) >= 2
     /\ text[1] = TokOpen
     /\ text[Len(text)] = TokClose
     /\ \A i \in 2..(Len(text) - 1) : text[i].tok = "{}"
  THEN [ ok |-> TRUE,
         data |-> [i \in 1..(Len(text) - 2) |-> DictOf(text[i + 1].pairs)] ]
  ELSE [ ok |-> FALSE, data |-> <<>> ]

(***************************************************************************)
(* list.sort(key=...): for the short lists of the model CPython sorts by   *)
(* binary insertion, comparing keys with < only.                           *)
(***************************************************************************)
KeyLess(field, x, y) ==
  IF field = "start_date" THEN StrLess(x.start_date, y.start_date)
  ELSE FloatLess(x.budget, y.budget)

RECURSIVE Bisect(_, _, _, _, _)
Bisect(run, pivot, field, l, r) ==
  IF l >= r THEN l
  ELSE LET p == l + ((r - l) \div 2)
       IN  IF KeyLess(field, pivot, run[p + 1])
           THEN Bisect(run, pivot, field, l, p)
           ELSE Bisect(run, pivot, field, p + 1, r)

InsertAt(s, k, x) == SubSeq(s, 1, k) \o << x >> \o SubSeq(s, k + 1, Len(s))

RECURSIVE BinarySort(_, _, _)
BinarySort(run, rest, field) ==
  IF rest = <<>> THEN run
  ELSE BinarySort(
         InsertAt(run, Bisect(run, Head(rest), field, 0, Len(run)), Head(rest)),
         Tail(rest), field)

list_sort(s, field) == BinarySort(<<>>, s, field)

(***************************************************************************)
(* State.                                                                  *)
(*   destinations  ItineraryManager.destinations                           *)
(*   file          the file named ItineraryManager.filename                *)
(*   client        AITravelAssistant.client: "None" or "OpenAI"            *)
(*   pc            where the program waits for input(): at the caller      *)
(*                 ("menu"), at a prompt of get_destination_input or of    *)
(*                 update_destination, or "exit" after the loop has ended  *)
(*   loc           the locals of the function that is waiting at a prompt  *)
(* and, recording the last step:                                           *)
(*   op, arg, ret  the function that ran, the text it was given, and what  *)
(*                 it returned or reported                                 *)
(*   old, oldFile  destinations and file before the step                   *)
(*   results       the list returned by search_destination                 *)
(*   lastSave      the list written by the last save that succeeded, as    *)
(*                 long as the file still holds it                         *)
(***************************************************************************)
VARIABLES destinations, file, client, pc, loc,
          op, arg, ret, old, oldFile, results, lastSave

vars == << destinations, file, client, pc, loc,
           op, arg, ret, old, oldFile, results, lastSave >>

NoLoc ==
  [ idx |-> 0, city |-> <<>>, country |-> <<>>, start_date |-> <<>>,
    end_date |-> <<>>, budget |-> Fl(0) ]

NoFile == [exists |-> FALSE, text |-> <<>>]

NoSave == [valid |-> FALSE, seq |-> <<>>]

Hist(o, a, r, res) ==
  /\ op' = o
  /\ arg' = a
  /\ ret' = r
  /\ results' = res
  /\ old' = destinations
  /\ oldFile' = file

\* control is back at the caller, which waits for the next command
Return == pc' = "menu" /\ loc' = NoLoc

(***************************************************************************)
(* class ItineraryManager                                                  *)
(***************************************************************************)
CityMatches(dest, city) == lower(dest.city) = lower(city)

\* FirstMatch with the loop stopping at the last match instead of the first
LastMatch(dests, city) ==
  IF \E i \in 1..Len(dests) : CityMatches(dests[i], city)
  THEN CHOOSE i \in 1..Len(dests) :
         /\ CityMatches(dests[i], city)
         /\ \A j \in (i + 1)..Len(dests) : ~CityMatches(dests[j], city)
  ELSE 0

\* the index of the first destination the loops of remove_destination and
\* update_destination stop at, 0 when they run to the end
FirstMatch(dests, city) ==
  IF \E i \in 1..Len(dests) : CityMatches(dests[i], city)
  THEN CHOOSE i \in 1..Len(dests) :
         /\ CityMatches(dests[i], city)
         /\ \A j \in 1..(i - 1) : ~CityMatches(dests[j], city)
  ELSE 0

\* list.pop(i), with i counted from 1
Pop(s, i) == SubSeq(s, 1, i - 1) \o SubSeq(s, i + 1, Len(s))

add_destination(destination) ==
  /\ destinations' = Append(destinations, destination)
  /\ Hist("add_destination", destination.city, "None", <<>>)
  /\ Return
  /\ UNCHANGED << file, client, lastSave >>

remove_destination(city) ==
  LET i == FirstMatch(destinations, city)
  IN  /\ destinations' = IF i = 0 THEN destinations ELSE Pop(destinations, i)
      /\ Hist("remove_destination", city,
              IF i = 0 THEN "False" ELSE "True", <<>>)
      /\ Return
      /\ UNCHANGED << file, client, lastSave >>

\* SearchHit without query.lower()
SearchHitAsTyped(dest, query) ==
  \/ Contains(query, lower(dest.city))
  \/ Contains(query, lower(dest.country))
  \/ \E k \in 1..Len(dest.activities) :
       Contains(query, lower(dest.activities[k]))

\* the test of search_destination's loop body
SearchHit(dest, query) ==
  LET query_lower == lower(query)
  IN  \/ Contains(query_lower, lower(dest.city))
      \/ Contains(query_lower, lower(dest.country))
      \/ \E k \in 1..Len(dest.activities) :
           Contains(query_lower, lower(dest.activities[k]))

RECURSIVE SearchLoop(_, _)
SearchLoop(dests, query) ==
  IF dests = <<>> THEN <<>>
  ELSE (IF SearchHit(Head(dests), query) THEN << Head(dests) >> ELSE <<>>)
       \o SearchLoop(Tail(dests), query)

search_destination(query) ==
  /\ Hist("search_destination", query, "None",
          SearchLoop(destinations, query))
  /\ Return
  /\ UNCHANGED << destinations, file, client, lastSave >>

view_all_destinations ==
  /\ Hist("view_all_destinations", <<>>, "None", <<>>)
  /\ Return
  /\ UNCHANGED << destinations, file, client, lastSave >>

sort_by_date ==
  /\ destinations' = list_sort(destinations, "start_date")
  /\ Hist("sort_by_date", <<>>, "None", <<>>)
  /\ Return
  /\ UNCHANGED << file, client, lastSave >>

sort_by_budget ==
  /\ destinations' = list_sort(destinations, "budget")
  /\ Hist("sort_by_budget", <<>>, "None", <<>>)
  /\ Return
  /\ UNCHANGED << file, client, lastSave >>

(***************************************************************************)
(* update_destination: the loop finds the destination, then the function   *)
(* waits at five prompts in turn; each answer is applied to the found      *)
(* destination before the next prompt.                                     *)
(***************************************************************************)
update_destination(city) ==
  LET i == FirstMatch(destinations, city)
  IN  /\ IF i = 0
         THEN /\ Return
              /\ Hist("update_destination", city, "False", <<>>)
         ELSE /\ pc' = "upd_country"
              /\ loc' = [NoLoc EXCEPT !.idx = i, !.city = city]
              /\ Hist("update_destination", city, "input", <<>>)
      /\ UNCHANGED << destinations, file, client, lastSave >>

\* new_country = input().strip(); if new_country: dest.country = new_country
NewCountry(dest, raw) ==
  LET new_country == strip(raw)
  IN  IF new_country # <<>> THEN new_country ELSE dest.country

\* NewStartDate without the call of _validate_date
NewStartDateUnchecked(dest, raw) ==
  LET new_start == strip(raw)
  IN  IF new_start # <<>> THEN new_start ELSE dest.start_date

\* if new_start and self._validate_date(new_start): dest.start_date = new_start
NewStartDate(dest, raw) ==
  LET new_start == strip(raw)
  IN  IF new_start # <<>> /\ validate_date(new_start)
      THEN new_start ELSE dest.start_date

\* NewEndDate taking the answer only when it is not before the start date
NewEndDateOrdered(dest, raw) ==
  LET new_end == strip(raw)
  IN  IF /\ new_end # <<>>
         /\ validate_date(new_end)
         /\ strptime(dest.start_date).ok
         /\ ~DateBefore(strptime(new_end), strptime(dest.start_date))
      THEN new_end ELSE dest.end_date

NewEndDate(dest, raw) ==
  LET new_end == strip(raw)
  IN  IF new_end # <<>> /\ validate_date(new_end)
      THEN new_end ELSE dest.end_date

\* if new_budget: try: dest.budget = float(new_budget) except ValueError
NewBudget(dest, raw) ==
  LET new_budget == strip(raw)
  IN  IF new_budget # <<>> /\ ParseFloat(new_budget).ok
      THEN ParseFloat(new_budget).val ELSE dest.budget

NewActivities(dest, raw) ==
  LET new_activities == strip(raw)
  IN  IF new_activities # <<>>
      THEN SplitActivities(new_activities) ELSE dest.activities

update_country(raw) ==
  /\ pc = "upd_country"
  /\ destinations' = [destinations EXCEPT ![loc.idx].country =
                        NewCountry(destinations[loc.idx], raw)]
  /\ pc' = "upd_start"
  /\ Hist("update_country", raw, "input", <<>>)
  /\ UNCHANGED << loc, file, client, lastSave >>

update_start(raw) ==
  /\ pc = "upd_start"
  /\ destinations' = [destinations EXCEPT ![loc.idx].start_date =
                        NewStartDate(destinations[loc.idx], raw)]
  /\ pc' = "upd_end"
  /\ Hist("update_start", raw, "input", <<>>)
  /\ UNCHANGED << loc, file, client, lastSave >>

update_end(raw) ==
  /\ pc = "upd_end"
  /\ destinations' = [destinations EXCEPT ![loc.idx].end_date =
                        NewEndDate(destinations[loc.idx], raw)]
  /\ pc' = "upd_budget"
  /\ Hist("update_end", raw, "input", <<>>)
  /\ UNCHANGED << loc, file, client, lastSave >>

update_budget(raw) ==
  /\ pc = "upd_budget"
  /\ destinations' = [destinations EXCEPT ![loc.idx].budget =
                        NewBudget(destinations[loc.idx], raw)]
  /\ pc' = "upd_activities"
  /\ Hist("update_budget", raw, "input", <<>>)
  /\ UNCHANGED << loc, file, client, lastSave >>

update_activities(raw) ==
  /\ pc = "upd_activities"
  /\ destinations' = [destinations EXCEPT ![loc.idx].activities =
                        NewActivities(destinations[loc.idx], raw)]
  /\ Return
  /\ Hist("update_activities", raw, "True", <<>>)
  /\ UNCHANGED << file, client, lastSave >>

(***************************************************************************)
(* save_to_file.  open(filename, 'w') either raises and leaves the file    *)
(* as it is (k = -1), or truncates it; json.dump then writes the text      *)
(* piece by piece and may raise after k pieces.  Every exception is caught *)
(* and reported.                                                           *)
(***************************************************************************)
SaveText(dests) == json_dump([i \in 1..Len(dests) |-> to_dict(dests[i])])

WriteFile(f, text, k) ==
  IF k = -1 THEN f ELSE [exists |-> TRUE, text |-> SubSeq(text, 1, k)]

save_to_file(k) ==
  LET text == SaveText(destinations)
  IN  /\ k \in -1..Len(text)
      /\ file' = WriteFile(file, text, k)
      /\ lastSave' = IF k = Len(text)
                     THEN [valid |-> TRUE, seq |-> destinations]
                     ELSE IF k = -1 THEN lastSave ELSE NoSave
      /\ Hist("save_to_file", <<>>,
              IF k = Len(text) THEN "saved" ELSE "error", <<>>)
      /\ UNCHANGED << destinations, client >>

(***************************************************************************)
(* load_from_file.  Nothing happens when the file does not exist.  Else    *)
(* open may raise (opens = FALSE), json.load may raise, from_dict may      *)
(* raise on any element; the list is assigned only after the whole         *)
(* comprehension has been evaluated.  Every exception is caught.           *)
(***************************************************************************)
\* [Destination.from_dict(item) for item in data]
FromDictAll(data) ==
  IF \A i \in 1..Len(data) : from_dict(data[i]).ok
  THEN [ ok |-> TRUE,
         dests |-> [i \in 1..Len(data) |-> from_dict(data[i]).dest] ]
  ELSE [ ok |-> FALSE, dests |-> <<>> ]

\* the elements converted before the first one that from_dict rejects
RECURSIVE ConvertedPrefix(_)
ConvertedPrefix(data) ==
  IF data = <<>> \/ ~from_dict(Head(data)).ok THEN <<>>
  ELSE << from_dict(Head(data)).dest >> \o ConvertedPrefix(Tail(data))

\* LoadResult with the list filled element by element, so that a failing
\* element leaves the ones before it in memory
LoadResultPartial(dests, f, opens) ==
  IF ~f.exists THEN [status |-> "absent", dests |-> dests]
  ELSE IF ~opens THEN [status |-> "error", dests |-> dests]
  ELSE IF ~json_load(f.text).ok THEN [status |-> "error", dests |-> dests]
  ELSE IF ~FromDictAll(json_load(f.text).data).ok
       THEN [ status |-> "error",
              dests |-> ConvertedPrefix(json_load(f.text).data) ]
  ELSE [ status |-> "loaded",
         dests |-> FromDictAll(json_load(f.text).data).dests ]

\* LoadResult with the list emptied before the file is looked for
LoadResultCleared(dests, f, opens) ==
  IF ~f.exists THEN [status |-> "absent", dests |-> <<>>]
  ELSE IF ~opens THEN [status |-> "error", dests |-> dests]
  ELSE IF ~json_load(f.text).ok THEN [status |-> "error", dests |-> dests]
  ELSE IF ~FromDictAll(json_load(f.text).data).ok
       THEN [status |-> "error", dests |-> dests]
  ELSE [ status |-> "loaded",
         dests |-> FromDictAll(json_load(f.text).data).dests ]

LoadResult(dests, f, opens) ==
  IF ~f.exists THEN [status |-> "absent", dests |-> dests]
  ELSE IF ~opens THEN [status |-> "error", dests |-> dests]
  ELSE IF ~json_load(f.text).ok THEN [status |-> "error", dests |-> dests]
  ELSE IF ~FromDictAll(json_load(f.text).data).ok
       THEN [status |-> "error", dests |-> dests]
  ELSE [ status |-> "loaded",
         dests |-> FromDictAll(json_load(f.text).data).dests ]

load_from_file(opens) ==
  /\ destinations' = LoadResult(destinations, file, opens).dests
  /\ Hist("load_from_file", <<>>,
          LoadResult(destinations, file, opens).status, <<>>)
  /\ UNCHANGED << file, client, lastSave >>

\* ItineraryManager.__init__ on a file f: the list starts empty and is loaded
ManagerInit(f, opens) ==
  /\ file = f
  /\ destinations = LoadResult(<<>>, f, opens).dests
  /\ pc = "menu"
  /\ loc = NoLoc
  /\ op = "__init__"
  /\ arg = <<>>
  /\ ret = LoadResult(<<>>, f, opens).status
  /\ old = <<>>
  /\ oldFile = f
  /\ results = <<>>
  /\ lastSave = NoSave

(***************************************************************************)
(* Calls of the ItineraryManager methods by a caller that holds the        *)
(* manager object: any argument may be passed, the empty string included.  *)
(***************************************************************************)
CallAdd(destination) ==
  /\ pc = "menu"
  /\ add_destination(destination)

CallRemove(city) ==
  /\ pc = "menu"
  /\ remove_destination(city)

CallUpdate(city) ==
  /\ pc = "menu"
  /\ update_destination(city)

CallSearch(query) ==
  /\ pc = "menu"
  /\ search_destination(query)

CallView ==
  /\ pc = "menu"
  /\ view_all_destinations

CallSortByDate ==
  /\ pc = "menu"
  /\ sort_by_date

CallSortByBudget ==
  /\ pc = "menu"
  /\ sort_by_budget

CallSave(k) ==
  /\ pc = "menu"
  /\ save_to_file(k)
  /\ Return

CallLoad(opens) ==
  /\ pc = "menu"
  /\ load_from_file(opens)
  /\ Return

(***************************************************************************)
(* class TravelPlannerApp: one step of run() for each menu choice, and one *)
(* for each prompt of get_destination_input.                               *)
(***************************************************************************)
\* a branch of run() that calls no method of the manager
NoCall(o, a, r) ==
  /\ Hist(o, a, r, <<>>)
  /\ Return
  /\ UNCHANGED << destinations, file, client, lastSave >>

\* a prompt of get_destination_input that is asked again
AskAgain(o, a) ==
  /\ Hist(o, a, "again", <<>>)
  /\ UNCHANGED << destinations, file, client, lastSave, pc, loc >>

\* choice 1, up to the first prompt: city = input("City: ").strip()
Choice1(raw) ==
  /\ pc = "menu"
  /\ LET city == strip(raw)
     IN  IF city = <<>>
         THEN NoCall("get_destination_input", raw, "None")
         ELSE /\ pc' = "add_country"
              /\ loc' = [NoLoc EXCEPT !.city = city]
              /\ Hist("get_destination_input", raw, "input", <<>>)
              /\ UNCHANGED << destinations, file, client, lastSave >>

InputCountry(raw) ==
  /\ pc = "add_country"
  /\ LET country == strip(raw)
     IN  IF country = <<>>
         THEN NoCall("input_country", raw, "None")
         ELSE /\ pc' = "add_start"
              /\ loc' = [loc EXCEPT !.country = country]
              /\ Hist("input_country", raw, "input", <<>>)
              /\ UNCHANGED << destinations, file, client, lastSave >>

\* the first while True loop: left when strptime accepts the text
InputStartDate(raw) ==
  /\ pc = "add_start"
  /\ LET start_date == strip(raw)
     IN  IF strptime(start_date).ok
         THEN /\ pc' = "add_end"
              /\ loc' = [loc EXCEPT !.start_date = start_date]
              /\ Hist("input_start_date", raw, "input", <<>>)
              /\ UNCHANGED << destinations, file, client, lastSave >>
         ELSE AskAgain("input_start_date", raw)

\* the test that ends the second while True loop
EndDateAccepted(end_date, start_date) ==
  strptime(end_date).ok /\ StrGeq(end_date, start_date)

InputEndDate(raw) ==
  /\ pc = "add_end"
  /\ LET end_date == strip(raw)
     IN  IF EndDateAccepted(end_date, loc.start_date)
         THEN /\ pc' = "add_budget"
              /\ loc' = [loc EXCEPT !.end_date = end_date]
              /\ Hist("input_end_date", raw, "input", <<>>)
              /\ UNCHANGED << destinations, file, client, lastSave >>
         ELSE AskAgain("input_end_date", raw)

\* the test that ends the third while True loop: float(text) > 0
BudgetAccepted(raw) ==
  ParseFloat(raw).ok /\ FloatGreater(ParseFloat(raw).val, Fl(0))

InputBudget(raw) ==
  /\ pc = "add_budget"
  /\ IF BudgetAccepted(raw)
     THEN /\ pc' = "add_activities"
          /\ loc' = [loc EXCEPT !.budget = ParseFloat(raw).val]
          /\ Hist("input_budget", raw, "input", <<>>)
          /\ UNCHANGED << destinations, file, client, lastSave >>
     ELSE AskAgain("input_budget", raw)

\* InputActivities with the itinerary saved as soon as the record is added
InputActivitiesSaving(raw) ==
  /\ pc = "add_activities"
  /\ LET activities_input == strip(raw)
         added == Append(destinations,
                         Destination(loc.city, loc.country, loc.start_date,
                                     loc.end_date, loc.budget,
                                     SplitActivities(activities_input)))
     IN  IF activities_input = <<>>
         THEN NoCall("input_activities", raw, "None")
         ELSE /\ destinations' = added
              /\ file' = [exists |-> TRUE, text |-> SaveText(added)]
              /\ lastSave' = [valid |-> TRUE, seq |-> added]
              /\ Hist("add_destination", loc.city, "None", <<>>)
              /\ Return
              /\ UNCHANGED client

\* the last prompt; a Destination is returned and run() adds it
InputActivities(raw) ==
  /\ pc = "add_activities"
  /\ LET activities_input == strip(raw)
     IN  IF activities_input = <<>>
         THEN NoCall("input_activities", raw, "None")
         ELSE add_destination(
                Destination(loc.city, loc.country, loc.start_date,
                            loc.end_date, loc.budget,
                            SplitActivities(activities_input)))

Choice2(raw) ==
  /\ pc = "menu"
  /\ LET city == strip(raw)
     IN  IF city # <<>> THEN remove_destination(city)
         ELSE NoCall("choice_2", raw, "None")

Choice3(raw) ==
  /\ pc = "menu"
  /\ LET city == strip(raw)
     IN  IF city # <<>> THEN update_destination(city)
         ELSE NoCall("choice_3", raw, "None")

Choice4 ==
  /\ pc = "menu"
  /\ view_all_destinations

Choice5(raw) ==
  /\ pc = "menu"
  /\ LET query == strip(raw)
     IN  IF query # <<>> THEN search_destination(query)
         ELSE NoCall("choice_5", raw, "None")

\* ai_assistance_menu: returns at once without destinations or without a
\* client; else the answer of the service is printed
Choice6 ==
  /\ pc = "menu"
  /\ NoCall("ai_assistance_menu", <<>>,
            IF destinations = <<>> THEN "no destinations"
            ELSE IF client = "None" THEN "disabled"
            ELSE "asked")

Choice7(k) ==
  /\ pc = "menu"
  /\ save_to_file(k)
  /\ Return

Choice8(opens) ==
  /\ pc = "menu"
  /\ load_from_file(opens)
  /\ Return

\* sort_menu
Choice9(raw) ==
  /\ pc = "menu"
  /\ LET choice == strip(raw)
     IN  IF destinations = <<>> THEN NoCall("sort_menu", raw, "None")
         ELSE IF choice = << "1" >> THEN sort_by_date
         ELSE IF choice = << "2" >> THEN sort_by_budget
         ELSE NoCall("sort_menu", raw, "invalid")

\* setup_api_key: the assistant is replaced when the service accepts the key
Choice10(raw, accepted) ==
  /\ pc = "menu"
  /\ client' = IF strip(raw) # <<>> /\ accepted THEN "OpenAI" ELSE client
  /\ Hist("setup_api_key", raw, "None", <<>>)
  /\ Return
  /\ UNCHANGED << destinations, file, lastSave >>

\* choice 11: save_to_file(), then break
Choice11(k) ==
  /\ pc = "menu"
  /\ save_to_file(k)
  /\ pc' = "exit"
  /\ loc' = NoLoc

ChoiceInvalid ==
  /\ pc = "menu"
  /\ NoCall("invalid_choice", <<>>, "None")

(***************************************************************************)
(* Texts and records the specifications draw their inputs from.            *)
(***************************************************************************)
Empty == <<>>
Blank == << " " >>

Oct01 == << "2", "0", "2", "4", "-", "1", "0", "-", "0", "1" >>
Oct05 == << "2", "0", "2", "4", "-", "1", "0", "-", "0", "5" >>
\* accepted by strptime although month and day are not zero-padded
Sep30 == << "2", "0", "2", "4", "-", "9", "-", "3", "0" >>
Month13 == << "2", "0", "2", "4", "-", "1", "3", "-", "0", "1" >>
Feb30 == << "2", "0", "2", "4", "-", "0", "2", "-", "3", "0" >>
Slashes == << "1", "0", "/", "0", "1", "/", "2", "0", "2", "4" >>

StoreA ==
  Destination(<< "A", "b" >>, << "F" >>, Oct01, Oct05, Fl(100),
              << << "M", "x" >> >>)
StoreB ==
  Destination(<< "a", "b" >>, << "N" >>, Oct01, Oct05, Fl(200),
              << << "x" >>, << "F", "b" >> >>)
StoreC ==
  Destination(<< "B" >>, << "N", "a" >>, Oct05, Oct05, Fl(100),
              << << "M" >> >>)

StoreRecords == {StoreA, StoreB, StoreC}

StoreCities ==
  { Empty, << "A", "B" >>, << "a", "b" >>, << "b" >>, << "x" >>,
    << "A", "b", " " >> }

StoreQueries ==
  { Empty, << "A", "B" >>, << "b" >>, << "f" >>, << "M" >>, << "n", "a" >>,
    << "b", "x" >>, << "x" >> }

(***************************************************************************)
(* SpecStore: add, remove, search and view on a manager constructed        *)
(* without a file.                                                         *)
(***************************************************************************)
InitStore ==
  /\ client = "None"
  /\ ManagerInit(NoFile, TRUE)

NextStore ==
  \/ \E d \in StoreRecords : Len(destinations) < MaxDest /\ CallAdd(d)
  \/ \E c \in StoreCities : CallRemove(c)
  \/ \E q \in StoreQueries : CallSearch(q)
  \/ CallView

SpecStore == InitStore /\ [][NextStore]_vars

\* the indices of the destinations whose city equals the argument, ignoring
\* case, before the last step
C1_Matches == {i \in 1..Len(old) : lower(old[i].city) = lower(arg)}

C1_Min(S) == CHOOSE i \in S : \A j \in S : i <= j

C1_RemoveResult ==
  op = "remove_destination" =>
    IF C1_Matches = {}
    THEN ret = "False" /\ destinations = old
    ELSE /\ ret = "True"
         /\ Len(destinations) = Len(old) - 1
         /\ \A i \in 1..Len(destinations) :
              destinations[i] = IF i < C1_Min(C1_Matches) THEN old[i]
                                ELSE old[i + 1]

C1_SecondRemove ==
  [][ ( /\ op = "remove_destination"
        /\ ret = "True"
        /\ Cardinality(C1_Matches) = 1
        /\ op' = "remove_destination"
        /\ arg' = arg )
      => ret' = "False" ]_vars

\* C1: remove_destination(c) returns False and leaves the list unchanged
\* when no city equals c ignoring case; otherwise it returns True and the
\* list is the old one without its first match, everything else in place;
\* and when exactly one record matched, removing c again at once returns
\* False.
C1_Remove == []C1_RemoveResult /\ C1_SecondRemove

\* a removal from a list in which two cities match: one record is left
C1_Witness ==
  /\ op = "remove_destination"
  /\ ret = "True"
  /\ Cardinality(C1_Matches) = 2
  /\ Len(destinations) = 1

\* q, lowered, occurs in s, lowered, at some offset
C2_Sub(q, s) ==
  \E a \in 0..Len(s) :
    /\ a + Len(q) <= Len(s)
    /\ \A k \in 1..Len(q) : lower(s)[a + k] = lower(q)[k]

C2_Hit(d, q) ==
  \/ C2_Sub(q, d.city)
  \/ C2_Sub(q, d.country)
  \/ \E k \in 1..Len(d.activities) : C2_Sub(q, d.activities[k])

C2_Idx == {i \in 1..Len(old) : C2_Hit(old[i], arg)}

C2_Kth(S, k) == CHOOSE i \in S : Cardinality({j \in S : j < i}) = k - 1

\* C2: search_destination(q) returns, in stored order and once each, exactly
\* the records that contain q ignoring case in city, country or an
\* activity; the empty query returns every record; the list is unchanged.
C2_Search ==
  op = "search_destination" =>
    /\ destinations = old
    /\ Len(results) = Cardinality(C2_Idx)
    /\ \A k \in 1..Len(results) : results[k] = old[C2_Kth(C2_Idx, k)]
    /\ (arg = <<>> => results = old)

\* the query f finds one record by its country F and one by its activity Fb
C2_Witness ==
  /\ op = "search_destination"
  /\ arg = << "f" >>
  /\ Len(results) = 2
  /\ results[1] # results[2]

\* the empty query on a list of two
C2_WitnessEmpty ==
  /\ op = "search_destination"
  /\ arg = <<>>
  /\ Len(results) = 2

(***************************************************************************)
(* SpecFile: the manager constructed on a file that is absent, is not      *)
(* JSON, holds a saved list, or holds an element without one of its keys;  *)
(* then add, remove, update, sort, save and load in any order.  A save or  *)
(* a load may fail at any point of its input and output.                   *)
(***************************************************************************)
Minus5 == << "-", "5" >>

FileRecords == {StoreA, StoreC}

\* the text of an object without the key at position n of DictKeys
ObjectWithout(dest, n) ==
  TokObject(SubSeq(json_object(to_dict(dest)), 1, n - 1)
            \o SubSeq(json_object(to_dict(dest)), n + 1, Len(DictKeys)))

FileTexts ==
  { <<>>,
    << TokJunk >>,
    << TokOpen, TokObject(json_object(to_dict(StoreA))) >>,
    SaveText(<<>>),
    SaveText(<< StoreA >>),
    SaveText(<< StoreC, StoreA >>),
    << TokOpen, ObjectWithout(StoreC, 5),
       TokObject(json_object(to_dict(StoreA))), TokClose >>,
    << TokOpen, TokObject(json_object(to_dict(StoreA))),
       ObjectWithout(StoreC, 1), TokClose >> }

InitFile ==
  /\ client = "None"
  /\ \E f \in {NoFile} \cup {[exists |-> TRUE, text |-> t] : t \in FileTexts} :
       \E opens \in BOOLEAN : ManagerInit(f, opens)

NextFile ==
  \/ \E d \in FileRecords : Len(destinations) < MaxDest /\ CallAdd(d)
  \/ \E c \in {<< "a", "b" >>, << "b" >>} : CallRemove(c)
  \/ \E c \in {<< "A", "B" >>, << "x" >>} : CallUpdate(c)
  \/ update_country(Empty)
  \/ update_start(Empty)
  \/ update_end(Empty)
  \/ \E raw \in {Empty, Minus5} : update_budget(raw)
  \/ update_activities(Empty)
  \/ CallSortByBudget
  \/ \E k \in -1..(MaxDest + 2) : CallSave(k)
  \/ \E opens \in BOOLEAN : CallLoad(opens)

SpecFile == InitFile /\ [][NextFile]_vars

\* C3: a load that succeeds while the file still holds what the last
\* successful save wrote makes the list equal to the list that was saved,
\* whatever was added, removed, updated or sorted in between; nothing of the
\* list in memory before the load is kept.
C3_SaveThenLoad ==
  (op = "load_from_file" /\ ret = "loaded" /\ lastSave.valid)
    => destinations = lastSave.seq

\* a load that brings back a saved list of two after the list in memory had
\* been changed to something else
C3_Witness ==
  /\ op = "load_from_file"
  /\ ret = "loaded"
  /\ lastSave.valid
  /\ Len(destinations) = 2
  /\ old # <<>>
  /\ old # destinations

\* the text is "[", objects that each have the six keys, "]"
C4_WellFormed(text) ==
  /\ Len(text) >= 2
  /\ text[1].tok = "["
  /\ text[Len(text)].tok = "]"
  /\ \A i \in 2..(Len(text) - 1) :
       /\ text[i].tok = "{}"
       /\ \A n \in 1..Len(DictKeys) :
            \E j \in 1..Len(text[i].pairs) : text[i].pairs[j][1] = DictKeys[n]

\* C4: when the file exists and cannot be read, is not JSON, or has an
\* element without one of the six keys, at any position, load_from_file
\* reports an error, leaves the list as it was, and the program goes on.
C4_FailedLoad ==
  ( /\ op \in {"load_from_file", "__init__"}
    /\ oldFile.exists
    /\ (ret = "error" \/ ~C4_WellFormed(oldFile.text)) )
    => (ret = "error" /\ destinations = old /\ pc = "menu")

\* a load into a list of two of a file whose second element lacks a key
C4_Witness ==
  /\ op = "load_from_file"
  /\ ret = "error"
  /\ Len(old) = 2
  /\ Len(oldFile.text) = 4
  /\ C4_WellFormed(SubSeq(oldFile.text, 1, 2) \o << TokClose >>)
  /\ ~C4_WellFormed(oldFile.text)

\* C5: loading when the file does not exist is not an error and leaves the
\* list untouched: empty after construction, and unchanged by a later load.
C5_AbsentFile ==
  (op \in {"load_from_file", "__init__"} /\ ~oldFile.exists)
    => /\ ret = "absent"
       /\ destinations = old
       /\ (op = "__init__" => destinations = <<>>)

\* a later load without a file, with two records in memory
C5_Witness ==
  /\ op = "load_from_file"
  /\ ~oldFile.exists
  /\ Len(destinations) = 2

\* C10: after a save attempt the file holds its previous contents or the
\* complete text of the list, and the list is unchanged.
C10_AtomicSave ==
  op = "save_to_file" =>
    /\ destinations = old
    /\ \/ file = oldFile
       \/ file = [exists |-> TRUE, text |-> SaveText(destinations)]

(***************************************************************************)
(* SpecUpdate: update_destination on a list of records whose cities all    *)
(* match the same argument, with blank, valid and invalid answers at each  *)
(* prompt.                                                                 *)
(***************************************************************************)
UpdateCities == { Empty, << "A", "B" >>, << "x" >> }
UpdateCountries == { Empty, Blank, << "N" >> }
UpdateStarts == { Empty, Sep30, Month13 }
UpdateEnds == { Empty, Oct01, Feb30, Slashes }
UpdateBudgets == { Empty, << "x" >>, Minus5 }
UpdateActivities == { Empty, << "x", ",", " ", "F", "b" >> }

NextUpdate ==
  \/ \E d \in {StoreA, StoreB} : Len(destinations) < MaxDest /\ CallAdd(d)
  \/ \E c \in UpdateCities : CallUpdate(c)
  \/ \E raw \in UpdateCountries : update_country(raw)
  \/ \E raw \in UpdateStarts : update_start(raw)
  \/ \E raw \in UpdateEnds : update_end(raw)
  \/ \E raw \in UpdateBudgets : update_budget(raw)
  \/ \E raw \in UpdateActivities : update_activities(raw)

SpecUpdate == InitStore /\ [][NextUpdate]_vars

C8_Matches == {i \in 1..Len(old) : lower(old[i].city) = lower(arg)}

\* the lookup: False and no change without a match, else the first match is
\* the record the prompts are about
C8_Lookup ==
  op = "update_destination" =>
    /\ destinations = old
    /\ IF C8_Matches = {}
       THEN ret = "False" /\ pc = "menu"
       ELSE /\ pc = "upd_country"
            /\ loc.idx \in C8_Matches
            /\ \A j \in C8_Matches : loc.idx <= j

\* the answer is empty once the blanks around it are removed
C8_Blank(raw) == \A i \in 1..Len(raw) : raw[i] = " "

\* record e is record d with at most the field named f changed
C8_OnlyField(d, e, f) ==
  /\ e.city = d.city
  /\ (f # "country" => e.country = d.country)
  /\ (f # "start_date" => e.start_date = d.start_date)
  /\ (f # "end_date" => e.end_date = d.end_date)
  /\ (f # "budget" => e.budget = d.budget)
  /\ (f # "activities" => e.activities = d.activities)

C8_FieldOf ==
  [ upd_country |-> "country", upd_start |-> "start_date",
    upd_end |-> "end_date", upd_budget |-> "budget",
    upd_activities |-> "activities" ]

C8_PromptStep ==
  pc \in DOMAIN C8_FieldOf =>
    LET d == destinations[loc.idx]
        e == destinations'[loc.idx]
    IN  /\ Len(destinations') = Len(destinations)
        /\ \A i \in 1..Len(destinations) :
             i # loc.idx => destinations'[i] = destinations[i]
        /\ C8_OnlyField(d, e, C8_FieldOf[pc])
        /\ (C8_Blank(arg') => e = d)
        /\ (pc = "upd_start" /\ ~strptime(strip(arg')).ok => e = d)
        /\ (pc = "upd_end" /\ ~strptime(strip(arg')).ok => e = d)
        /\ (pc = "upd_activities" => ret' = "True" /\ pc' = "menu")

C8_Prompt == [][C8_PromptStep]_vars

\* C8: update_destination(city) returns False and changes nothing when no
\* city matches ignoring case; else it returns True and only the first
\* matching record may change, never its city; a field whose answer is
\* left blank keeps its value, and a start or end date that strptime does
\* not accept is not stored.
C8_Update == []C8_Lookup /\ C8_Prompt

\* a start date of month 13 was answered for the first of two matching
\* records, whose country had just been changed: the date is kept
C8_Witness ==
  /\ op = "update_start"
  /\ arg = Month13
  /\ destinations = old
  /\ Len(destinations) = 2
  /\ loc.idx = 1
  /\ lower(destinations[2].city) = lower(loc.city)
  /\ destinations[1].country = << "N" >>

(***************************************************************************)
(* SpecSort: sort_by_date and sort_by_budget on lists of up to MaxSort     *)
(* records with equal and different start dates and budgets; a budget can  *)
(* be replaced at the budget prompt of update_destination.                 *)
(***************************************************************************)
NanText == << "n", "a", "n" >>

SortA ==
  Destination(<< "A", "b" >>, << "F" >>, Oct05, Oct05, Fl(200),
              << << "M", "x" >> >>)
SortB ==
  Destination(<< "B" >>, << "F" >>, Oct01, Oct05, Fl(100), << << "M", "x" >> >>)
SortC ==
  Destination(<< "x" >>, << "F" >>, Oct05, Oct05, Fl(100), << << "M", "x" >> >>)
SortD ==
  Destination(<< "N" >>, << "F" >>, Sep30, Sep30, Fl(200), << << "M", "x" >> >>)

SortRecords == {SortA, SortB, SortC, SortD}

NextSort ==
  \/ \E d \in SortRecords : Len(destinations) < MaxSort /\ CallAdd(d)
  \/ \E c \in {<< "a", "b" >>, << "b" >>, << "X" >>, << "n" >>} : CallUpdate(c)
  \/ update_country(Empty)
  \/ update_start(Empty)
  \/ update_end(Empty)
  \/ \E raw \in {Empty, NanText} : update_budget(raw)
  \/ update_activities(Empty)
  \/ CallSortByDate
  \/ CallSortByBudget

SpecSort == InitStore /\ [][NextSort]_vars

C6_Sorts == {"sort_by_date", "sort_by_budget"}

C6_Perms(n) == {p \in [1..n -> 1..n] : \A i, j \in 1..n : i # j => p[i] # p[j]}

\* the keys of x and y are equal
C6_KeyEq(x, y) ==
  IF op = "sort_by_date" THEN x.start_date = y.start_date
  ELSE ~x.budget.nan /\ ~y.budget.nan /\ x.budget.v = y.budget.v

\* the key of x is smaller than the key of y: an earlier start date, a
\* smaller budget
C6_KeyLess(x, y) ==
  IF op = "sort_by_date"
  THEN /\ strptime(x.start_date).ok
       /\ strptime(y.start_date).ok
       /\ DateBefore(strptime(x.start_date), strptime(y.start_date))
  ELSE ~x.budget.nan /\ ~y.budget.nan /\ x.budget.v < y.budget.v

\* the list is the old one rearranged, records of equal key in their old
\* order
C6_StablePermutation ==
  /\ Len(destinations) = Len(old)
  /\ \E p \in C6_Perms(Len(old)) :
       /\ \A k \in 1..Len(old) : destinations[k] = old[p[k]]
       /\ \A a, b \in 1..Len(old) :
            (a < b /\ C6_KeyEq(destinations[a], destinations[b])) => p[a] < p[b]

\* no record stands before one of smaller key
C6_Ascending ==
  \A a, b \in 1..Len(destinations) :
    a < b => ~C6_KeyLess(destinations[b], destinations[a])

\* C6: after sort_by_date and after sort_by_budget the list is a permutation
\* of the list before, records of equal key keep their relative order, and
\* the list is ascending in start_date, respectively in budget.
C6_Sort ==
  op \in C6_Sorts => (C6_StablePermutation /\ C6_Ascending)

(***************************************************************************)
(* Spec: TravelPlannerApp.run() on a console.  Every step is one input()   *)
(* of the menu loop or of a prompt behind it, with what the code does      *)
(* until the next input().  input() raises EOFError when the console is    *)
(* at its end; nothing in run() catches it.                                *)
(***************************************************************************)
\* input() raises EOFError: it leaves the prompt, the handler and run()
EndOfInput ==
  /\ pc \notin {"exit", "raised"}
  /\ pc' = "raised"
  /\ loc' = NoLoc
  /\ Hist("EOFError", <<>>, "raised", <<>>)
  /\ UNCHANGED << destinations, file, client, lastSave >>

AppCity == << " ", "A", "b" >>
AppBudgets == { << "0" >>, Minus5, << "x" >>, NanText, << "1", "0", "0" >> }
AppActivities == << "M", "x", ",", " ", "x" >>

Init ==
  /\ client \in {"None", "OpenAI"}
  /\ \E f \in {NoFile, [exists |-> TRUE, text |-> SaveText(<< StoreA >>)]} :
       ManagerInit(f, TRUE)

Next ==
  \/ \E raw \in {Blank, AppCity} : Len(destinations) < MaxDest /\ Choice1(raw)
  \/ \E raw \in {Empty, << "F" >>} : InputCountry(raw)
  \/ \E raw \in {Month13, Oct01, Sep30} : InputStartDate(raw)
  \/ \E raw \in {Feb30, Sep30, Oct05} : InputEndDate(raw)
  \/ \E raw \in AppBudgets : InputBudget(raw)
  \/ \E raw \in {Empty, AppActivities} : InputActivities(raw)
  \/ \E raw \in {Blank, << "a", "b" >>} : Choice2(raw)
  \/ \E raw \in {Blank, << "A", "B" >>} : Choice3(raw)
  \/ update_country(Empty)
  \/ update_start(Empty)
  \/ update_end(Empty)
  \/ \E raw \in {Empty, Minus5} : update_budget(raw)
  \/ update_activities(Empty)
  \/ Choice4
  \/ \E raw \in {Blank, << "x" >>} : Choice5(raw)
  \/ Choice6
  \/ \E k \in {-1, 0, Len(SaveText(destinations))} : Choice7(k)
  \/ \E opens \in BOOLEAN : Choice8(opens)
  \/ \E raw \in {<< "1" >>, << "2" >>, << "x" >>} : Choice9(raw)
  \/ \E raw \in {Empty, << "x" >>} : \E accepted \in BOOLEAN :
       Choice10(raw, accepted)
  \/ \E k \in {-1, 0, Len(SaveText(destinations))} : Choice11(k)
  \/ ChoiceInvalid
  \/ EndOfInput

Spec == Init /\ [][Next]_vars

\* C7: a record added through the add flow has a non-empty city and
\* country, two dates that parse, an end date not before its start date, a
\* budget above 0 and at least one activity.
C7_Created ==
  op = "add_destination" =>
    LET d == destinations[Len(destinations)]
    IN  /\ d.city # <<>>
        /\ d.country # <<>>
        /\ strptime(d.start_date).ok
        /\ strptime(d.end_date).ok
        /\ ~DateBefore(strptime(d.end_date), strptime(d.start_date))
        /\ FloatGreater(d.budget, Fl(0))
        /\ Len(d.activities) >= 1

\* C9: run() has ended only by the exit command, and save_to_file was
\* called on the list in memory immediately before, whatever its outcome.
C9_ExitAfterSave ==
  pc \in {"exit", "raised"} =>
    /\ pc = "exit"
    /\ op = "save_to_file"
    /\ old = destinations

(***************************************************************************)
(* class AITravelAssistant: generate_itinerary and generate_budget_tips.   *)
(* Without a client they return the text of the fallback functions; with   *)
(* a client they ask the service and return its answer or an error text.   *)
(* A text is modelled by its variable parts, behind a part that stands for *)
(* the fixed wording.                                                      *)
(***************************************************************************)
\* the days of the months of year y before month m
RECURSIVE DaysBeforeMonth(_, _)
DaysBeforeMonth(y, m) ==
  IF m <= 1 THEN 0 ELSE DaysInMonth(y, m - 1) + DaysBeforeMonth(y, m - 1)

\* date.toordinal() of a parsed date
Ordinal(dt) ==
  (dt.y - 1) * 365 + ((dt.y - 1) \div 4) - ((dt.y - 1) \div 100)
  + ((dt.y - 1) \div 400) + DaysBeforeMonth(dt.y, dt.m) + dt.d

\* (strptime(end_date) - strptime(start_date)).days + 1
FallbackDays(dest) ==
  Ordinal(strptime(dest.end_date)) - Ordinal(strptime(dest.start_date)) + 1

\* _generate_fallback_itinerary: ok = FALSE stands for the ValueError of
\* strptime
fallback_itinerary(dest) ==
  IF ~strptime(dest.end_date).ok \/ ~strptime(dest.start_date).ok
  THEN [ok |-> FALSE, text |-> <<>>]
  ELSE [ ok |-> TRUE,
         text |-> << "Basic Itinerary Template", dest.city, dest.country,
                     dest.start_date, dest.end_date, FallbackDays(dest),
                     dest.budget, dest.activities,
                     FallbackDays(dest) - 1,
                     IF dest.activities # <<>> THEN dest.activities[1]
                     ELSE << >>,
                     IF Len(dest.activities) > 1 THEN dest.activities[2]
                     ELSE << >>,
                     FallbackDays(dest) >> ]

\* _generate_fallback_budget_tips; city.upper() is kept as the city
fallback_budget_tips(dest) ==
  [ok |-> TRUE, text |-> << "General Budget Tips", dest.city >>]

\* the return of a generate_ function: the fallback without a client, else
\* what the service answers (answered) or the text of the except branches
Advice(fallback, answered) ==
  IF client = "None"
  THEN IF fallback.ok THEN [ret |-> "text", text |-> fallback.text]
       ELSE [ret |-> "ValueError", text |-> <<>>]
  ELSE IF answered THEN [ret |-> "service", text |-> << "answer" >>]
  ELSE [ret |-> "service", text |-> << "Error generating" >>]

generate_itinerary(i, answered) ==
  /\ pc = "menu"
  /\ i \in 1..Len(destinations)
  /\ Hist("generate_itinerary", << i >>,
          Advice(fallback_itinerary(destinations[i]), answered).ret,
          Advice(fallback_itinerary(destinations[i]), answered).text)
  /\ Return
  /\ UNCHANGED << destinations, file, client, lastSave >>

generate_budget_tips(i, answered) ==
  /\ pc = "menu"
  /\ i \in 1..Len(destinations)
  /\ Hist("generate_budget_tips", << i >>,
          Advice(fallback_budget_tips(destinations[i]), answered).ret,
          Advice(fallback_budget_tips(destinations[i]), answered).text)
  /\ Return
  /\ UNCHANGED << destinations, file, client, lastSave >>

(***************************************************************************)
(* SpecAdvice: a manager constructed on no file, on a saved list, or on a  *)
(* list whose record has a start date that is no date; records are added,  *)
(* removed and loaded, and the two generate_ functions are called on the   *)
(* stored records, with and without a client.                              *)
(***************************************************************************)
\* accepted by get_destination_input: '2024-9-30' >= '2024-10-01' as strings
AdviceShort ==
  Destination(<< "B" >>, << "F" >>, Oct01, Sep30, Fl(100), << << "M" >> >>)

\* all six keys, the start date in another notation
AdviceSlashes ==
  Destination(<< "x" >>, << "N" >>, Slashes, Oct05, Fl(100), << << "M" >> >>)

AdviceRecords == {StoreA, StoreB, AdviceShort}

AdviceFiles ==
  { NoFile,
    [exists |-> TRUE, text |-> SaveText(<< StoreC >>)],
    [exists |-> TRUE, text |-> SaveText(<< AdviceSlashes >>)] }

InitAdvice ==
  /\ client \in {"None", "OpenAI"}
  /\ \E f \in AdviceFiles : ManagerInit(f, TRUE)

NextAdvice ==
  \/ \E d \in AdviceRecords : Len(destinations) < MaxDest /\ CallAdd(d)
  \/ \E c \in {<< "a", "b" >>, << "b" >>, << "x" >>} : CallRemove(c)
  \/ CallLoad(TRUE)
  \/ \E i \in 1..MaxDest : \E answered \in BOOLEAN :
       generate_itinerary(i, answered)
  \/ \E i \in 1..MaxDest : \E answered \in BOOLEAN :
       generate_budget_tips(i, answered)

SpecAdvice == InitAdvice /\ [][NextAdvice]_vars

\* the record a generate_ function was called on
C11_Record == old[arg[1]]

\* end_date is not before start_date, as dates
C11_Ordered ==
  /\ strptime(C11_Record.start_date).ok
  /\ strptime(C11_Record.end_date).ok
  /\ ~DateBefore(strptime(C11_Record.end_date),
                 strptime(C11_Record.start_date))

\* C11: without a client, generate_itinerary and generate_budget_tips do
\* not ask the service and do not raise on any stored record: they return
\* a non-empty text made of the record's fields, and the itinerary text
\* holds the inclusive day count, at least 1 when end_date >= start_date.
C11_Fallback ==
  (client = "None" /\ op \in {"generate_itinerary", "generate_budget_tips"})
    => /\ ret = "text"
       /\ results # <<>>
       /\ op = "generate_budget_tips"
            => results = << "General Budget Tips", C11_Record.city >>
       /\ op = "generate_itinerary"
            => /\ results[2] = C11_Record.city
               /\ results[6] = Ordinal(strptime(C11_Record.end_date))
                                - Ordinal(strptime(C11_Record.start_date)) + 1
               /\ C11_Ordered => results[6] >= 1

\* the file is written in this step
C12_Written == file' # file

\* the list after the step is the list before it, edited as the operation
\* of the step edits it, whatever the file holds
C12_Edited ==
  \/ /\ op' = "add_destination"
     /\ Len(destinations') = Len(destinations) + 1
     /\ SubSeq(destinations', 1, Len(destinations)) = destinations
  \/ /\ op' = "remove_destination"
     /\ \E i \in 1..Len(destinations) : destinations' = Pop(destinations, i)
  \/ /\ op' \in {"update_country", "update_start", "update_end",
                  "update_budget", "update_activities"}
     /\ Len(destinations') = Len(destinations)
     /\ \A j \in 1..Len(destinations) :
          j # loc.idx => destinations'[j] = destinations[j]
  \/ /\ op' \in C6_Sorts
     /\ Len(destinations') = Len(destinations)
     /\ \E p \in C6_Perms(Len(destinations)) :
          \A k \in 1..Len(destinations) : destinations'[k] = destinations[p[k]]

\* the list after the step is the list the file holds
C12_Loaded ==
  /\ op' = "load_from_file"
  /\ file.exists
  /\ json_load(file.text).ok
  /\ destinations' = FromDictAll(json_load(file.text).data).dests

C12_Step ==
  /\ C12_Written => op' = "save_to_file"
  /\ op' = "save_to_file" => destinations' = destinations
  /\ destinations' # destinations => (C12_Loaded \/ C12_Edited)
  /\ op' \in {"search_destination", "view_all_destinations"}
       => destinations' = destinations

\* C12: in every step of the controller the file changes only when
\* save_to_file is called (menu save or exit), and the list in memory is
\* taken from the file only when load_from_file is called; add, remove,
\* update, search, sort and view leave the file alone and edit, if
\* anything, the list that is in memory.
C12_CallerTriggered == [][C12_Step]_vars

\* a record was added while the file holds another list, and the file was
\* left as it was
C12_Witness ==
  /\ op = "add_destination"
  /\ file.exists
  /\ file = oldFile
  /\ json_load(file.text).ok
  /\ file.text # SaveText(destinations)
  /\ destinations = Append(old, destinations[Len(destinations)])

(***************************************************************************)
(* SpecRevalidate: update_destination on records that were created with    *)
(* end_date >= start_date and budget > 0, answered with dates and budgets  *)
(* that are valid on their own.                                            *)
(***************************************************************************)
Oct09 == << "2", "0", "2", "4", "-", "1", "0", "-", "0", "9" >>
Sep09 == << "2", "0", "2", "4", "-", "0", "9", "-", "0", "9" >>

NextRevalidate ==
  \/ \E d \in {StoreA, StoreC} : Len(destinations) < MaxDest /\ CallAdd(d)
  \/ \E c \in {<< "a", "b" >>, << "b" >>, << "x" >>} : CallUpdate(c)
  \/ update_country(Empty)
  \/ \E raw \in {Empty, Oct09} : update_start(raw)
  \/ \E raw \in {Empty, Sep09, Feb30} : update_end(raw)
  \/ \E raw \in {Empty, << "0" >>, Minus5, << "x" >>} : update_budget(raw)
  \/ update_activities(Empty)

SpecRevalidate == InitStore /\ [][NextRevalidate]_vars

\* record d has two dates, the end not before the start, and a budget
\* above 0
C13_Valid(d) ==
  /\ strptime(d.start_date).ok
  /\ strptime(d.end_date).ok
  /\ ~DateBefore(strptime(d.end_date), strptime(d.start_date))
  /\ FloatGreater(d.budget, Fl(0))

C13_AllValid(dests) == \A i \in 1..Len(dests) : C13_Valid(dests[i])

\* an answer that is a date, or a float, on its own is stored, whatever the
\* other fields of the record are
C13_Stored ==
  /\ (pc = "upd_start" /\ strptime(strip(arg')).ok)
       => destinations'[loc.idx].start_date = strip(arg')
  /\ (pc = "upd_end" /\ strptime(strip(arg')).ok)
       => destinations'[loc.idx].end_date = strip(arg')
  /\ (pc = "upd_budget" /\ ParseFloat(strip(arg')).ok)
       => destinations'[loc.idx].budget = ParseFloat(strip(arg')).val

\* C13: update_destination stores a start date, an end date or a budget
\* without a look at the date order or the sign, so that one call leads
\* from a list whose records all have end_date >= start_date and
\* budget > 0 to a list with a record that has not.
C13_NotRevalidated == [][C13_Stored]_vars

\* all records were valid, the end date alone was answered, and the record
\* now ends before it starts
C13_Witness ==
  /\ op = "update_end"
  /\ C13_AllValid(old)
  /\ \E i \in 1..Len(destinations) :
       DateBefore(strptime(destinations[i].end_date),
                  strptime(destinations[i].start_date))

\* the same by the start date alone
C13_WitnessStart ==
  /\ op = "update_start"
  /\ C13_AllValid(old)
  /\ \E i \in 1..Len(destinations) :
       DateBefore(strptime(destinations[i].end_date),
                  strptime(destinations[i].start_date))

\* the same for the budget: 0 or less
C13_WitnessBudget ==
  /\ op = "update_budget"
  /\ C13_AllValid(old)
  /\ \E i \in 1..Len(destinations) :
       ~FloatGreater(destinations[i].budget, Fl(0))

====
